---- MODULE Spec2Model ----
(***************************************************************************)
(* maoer_csv.py: runner iterates over drama ids; process_drama_id fetches  *)
(* the episode list, fans one process_sound task per episode out to a      *)
(* ThreadPoolExecutor, drains as_completed on the main thread into the     *)
(* paid/free accumulators, sorts, and writes the two CSV files.            *)
(*                                                                         *)
(* Python values are modelled as follows.  A dict is a function on its     *)
(* keys (so a missing key is a key outside DOMAIN).  JSON / XML numbers    *)
(* that the code converts with int() are strings, converted by int.  A     *)
(* datetime is the one-element tuple <<epoch seconds>>, None the empty     *)
(* tuple.  The split(",") of a danmaku's p attribute is the sequence of    *)
(* its fields (Python index k is position k+1).                            *)
(***************************************************************************)
EXTENDS Integers, Sequences, FiniteSets, TLC

VARIABLES
    net,                  \* mocked responses: request key -> response (a fixture; other keys answer freely)
    drama_ids,            \* runner: drama_ids.split(',')
    di,                   \* runner: number of loop iterations started
    pc,                   \* position of the main thread
    frame,                \* locals of the running process_drama_id call
    tasks,                \* future_to_sound: one future per submitted process_sound
    completed,            \* futures finished and not yet yielded by as_completed, oldest first
    sound_file,           \* rows written by sound_writer (header omitted)
    drama_file,           \* rows written by drama_writer (header omitted)
    all_paid_total_uids,  \* runner: the global paid identifier set
    report,               \* the printed "All Paid Total UIDs" count, None before it is printed
    run,                  \* which execution of the program this is (1 or 2)
    first_run             \* the files and the report of the first execution, None while it runs

vars == <<net, drama_ids, di, pc, frame, tasks, completed, sound_file, drama_file,
          all_paid_total_uids, report, run, first_run>>

(***************************************************************************)
(* Bounds of the model.                                                    *)
(***************************************************************************)
NumDramas == 2        \* the longest input list of drama ids
MaxEpisodes == 2      \* the longest episode list a drama response carries
MaxPage == 3          \* the last comment page the model lets a task request

None == <<>>
EmptyDict == [k \in {} |-> 0]
Range(s) == {s[i] : i \in DOMAIN s}

(***************************************************************************)
(* int(): Python's conversion of a decimal string.                         *)
(***************************************************************************)
int(s) ==
    CASE s = "1" -> 1
      [] s = "01" -> 1
      [] s = "2" -> 2
      [] s = "3" -> 3
      [] s = "4" -> 4

\* datetime.datetime.fromtimestamp and the < of two datetimes
fromtimestamp(t) == <<t>>
Before(a, b) == a[1] < b[1]

(***************************************************************************)
(* Responses.  A transport or HTTP-status failure is RequestException      *)
(* (raise_for_status, and response.json() on a body that is not JSON); a   *)
(* body that is not XML is ParseError.                                     *)
(***************************************************************************)
RequestException == [kind |-> "RequestException"]
ParseError == [kind |-> "ParseError"]

\* one <d p="..."> element: p has the type at index 1 and the user id at index 6
D(type, uid) == [tag |-> "d", p |-> <<"0.5", type, "25", "16777215", "1700000000", "0", uid>>]
Comment(uid, subs) == [userid |-> uid, subcomments |-> [i \in DOMAIN subs |-> [userid |-> subs[i]]]]
Page(datas, more) == [kind |-> "ok", Datas |-> datas, hasMore |-> more]

(***************************************************************************)
(* The server.  Sounds 1 and 2 are catalogue sounds with fixed content;    *)
(* WildSound is a sound whose every response is arbitrary.                 *)
(***************************************************************************)
CatalogueSounds == {1, 2}
WildSound == Cardinality(CatalogueSounds) + 1

\* info.episodes.episode[] entries of the catalogue: need_pay is optional
CatalogueEpisodes ==
    {[sound_id |-> 1, soundstr |-> "A"],
     [sound_id |-> 1, soundstr |-> "A", need_pay |-> 1],
     [sound_id |-> 2, soundstr |-> "B", need_pay |-> 0],
     [sound_id |-> 2, soundstr |-> "B", need_pay |-> 1]}

SeqsUpTo(S, n) == UNION {[1..k -> S] : k \in 0..n}

DramaJson(episodes) ==
    [kind |-> "ok", name |-> "drama", price |-> "199", view_count |-> "1000",
     catalog_name |-> "cat", episode |-> episodes]

SoundJson(view_count, create_time) ==
    [kind |-> "ok", view_count |-> view_count, create_time |-> create_time]

CatalogueDetail(s) == IF s = 1 THEN SoundJson(10, 20) ELSE SoundJson(5, 10)

CatalogueDanmaku(s) ==
    [kind |-> "ok",
     children |-> IF s = 1 THEN <<D("1", "1"), D("4", "4"), D("1", "2")>>
                           ELSE <<D("1", "4")>>]

CatalogueFeed(s) ==
    IF s = 1 THEN <<Page(<<Comment("2", <<"3">>)>>, FALSE)>>
             ELSE <<Page(<<>>, FALSE)>>

WildElements == {D("1", "1"), D("4", "2"), D("2", "01"), D("1", "3"),
                 [tag |-> "source", p |-> <<"0", "1", "0", "0", "0", "0", "4">>]}
WildDatas == {<<>>, <<Comment("1", <<>>)>>, <<Comment("2", <<"3">>)>>,
              <<Comment("01", <<"2", "4">>), Comment("3", <<>>)>>}

\* drama 1 is the large drama of the catalogue; the others carry at most one episode
EpisodeLimit(drama_id) == IF drama_id = 1 THEN MaxEpisodes ELSE 1

\* every response the server may give to a request
Responses(key) ==
    LET s == key[2] IN
    CASE key[1] = "getdrama" ->
            {RequestException}
                \cup {DramaJson(eps) : eps \in SeqsUpTo(CatalogueEpisodes, EpisodeLimit(key[2]))}
      [] key[1] = "getsound" ->
            {RequestException}
                \cup (IF s = WildSound
                        THEN {SoundJson(7, 30), [kind |-> "ok", view_count |-> 0]}
                        ELSE {CatalogueDetail(s)})
      [] key[1] = "getdm" ->
            {RequestException}
                \cup (IF s = WildSound
                        THEN {ParseError}
                                \cup {[kind |-> "ok", children |-> c] :
                                        c \in SeqsUpTo(WildElements, 2)}
                        ELSE {CatalogueDanmaku(s)})
      [] key[1] = "getcomment" ->
            {RequestException}
                \cup (IF s = WildSound
                        THEN {Page(d, m) : d \in WildDatas, m \in BOOLEAN}
                        ELSE {IF key[3] <= Len(CatalogueFeed(s))
                                THEN CatalogueFeed(s)[key[3]]
                                ELSE Page(<<>>, FALSE)})

\* requests.get(url): the mocked response when the fixture has one
Fetch(key) == IF key \in DOMAIN net THEN {net[key]} ELSE Responses(key)

(***************************************************************************)
(* API client                                                              *)
(***************************************************************************)
get_drama_sound_lists(response) ==
    IF response.kind = "RequestException"
    THEN [sound_lists |-> <<>>, name |-> "", price |-> "", view_count |-> "",
          catalog_name |-> ""]
    ELSE [sound_lists |->
              [i \in DOMAIN response.episode |->
                  LET episode == response.episode[i] IN
                  [sound_id |-> episode.sound_id,
                   sound_title |-> episode.soundstr,
                   need_pay |-> IF "need_pay" \in DOMAIN episode
                                  THEN episode.need_pay ELSE 0]],
          name |-> response.name, price |-> response.price,
          view_count |-> response.view_count, catalog_name |-> response.catalog_name]

get_sound_detail(sound_id, response) ==
    IF response.kind = "RequestException"
    THEN EmptyDict
    ELSE [sound_id |-> sound_id,
          view_count |-> response.view_count,
          create_time |-> fromtimestamp(IF "create_time" \in DOMAIN response
                                          THEN response.create_time ELSE 0)]

\* mutant: the type discriminant is not looked at
fetch_all_danmakus_NoFilter(response) ==
    IF response.kind \in {"RequestException", "ParseError"}
    THEN {}
    ELSE {int(item.p[7]) : item \in {c \in Range(response.children) : c.tag = "d"}}

fetch_all_danmakus(response) ==
    IF response.kind \in {"RequestException", "ParseError"}
    THEN {}
    ELSE {int(item.p[7]) :
            item \in {c \in Range(response.children) : c.tag = "d" /\ c.p[2] # "4"}}

\* mutant: the subcomments are not walked
extract_user_ids_TopLevelOnly(data) ==
    {int(comment.userid) : comment \in Range(data.Datas)}

extract_user_ids(data) ==
    {int(comment.userid) : comment \in Range(data.Datas)}
        \cup {int(sub.userid) : sub \in UNION {Range(comment.subcomments) :
                                                comment \in Range(data.Datas)}}

\* mutant: the combined set is the danmaku set alone
process_sound_DanmakuOnly(sound, sound_detail, danmaku_uids, comment_uids) ==
    [sound_id |-> sound.sound_id,
     sound_title |-> sound.sound_title,
     need_pay |-> sound.need_pay,
     danmaku_uids |-> danmaku_uids,
     comment_uids |-> comment_uids,
     total_sound_uids |-> danmaku_uids] @@ sound_detail

\* the sound_detail.update({...}) of process_sound and its return value
process_sound(sound, sound_detail, danmaku_uids, comment_uids) ==
    [sound_id |-> sound.sound_id,
     sound_title |-> sound.sound_title,
     need_pay |-> sound.need_pay,
     danmaku_uids |-> danmaku_uids,
     comment_uids |-> comment_uids,
     total_sound_uids |-> danmaku_uids \cup comment_uids] @@ sound_detail

(***************************************************************************)
(* Drama aggregator: process_drama_id                                      *)
(***************************************************************************)
\* mutant: the paid union starts from a shared set that earlier dramas have filled
NewFrame_SharedPaid(drama_id, got, response) ==
    [drama_id |-> drama_id,
     sound_lists |-> got.sound_lists,
     name |-> got.name, price |-> got.price, view_count |-> got.view_count,
     sound_data |-> <<>>,
     total_paid_udis |-> all_paid_total_uids, total_free_udis |-> {},
     total_paid_danmaku_udis |-> {}, total_paid_comment_uids |-> {},
     total_free_danmaku_udis |-> {}, total_free_comment_uids |-> {},
     paid_view_count |-> 0, free_view_count |-> 0,
     first_sound_create_time |-> None,
     exception |-> "",
     paid_episodes |-> 0, free_episodes |-> 0,
     yielded |-> <<>>,
     listed |-> response]

\* the locals of process_drama_id after the list fetch
NewFrame(drama_id, got, response) ==
    [drama_id |-> drama_id,
     sound_lists |-> got.sound_lists,
     name |-> got.name, price |-> got.price, view_count |-> got.view_count,
     sound_data |-> <<>>,
     total_paid_udis |-> {}, total_free_udis |-> {},
     total_paid_danmaku_udis |-> {}, total_paid_comment_uids |-> {},
     total_free_danmaku_udis |-> {}, total_free_comment_uids |-> {},
     paid_view_count |-> 0, free_view_count |-> 0,
     first_sound_create_time |-> None,
     exception |-> "",                       \* the exception that left the with block, if any
     paid_episodes |-> 0, free_episodes |-> 0,  \* history: passes through each branch
     yielded |-> <<>>,                       \* history: the futures as_completed yielded
     listed |-> response]                    \* history: the getdrama response

NoFrame == [drama_id |-> None]

\* executor.submit(process_sound, sound): the future and the locals of its process_sound
NewTask(sound) ==
    [sound |-> sound,
     at |-> "get_sound_detail",     \* the call the worker makes next, or done / raised
     sound_detail |-> EmptyDict,
     danmaku_uids |-> {},
     comments_uids |-> {},
     page |-> 1,
     requested |-> <<>>,            \* history: the pages requested
     danmaku_served |-> None,       \* history: the getdm response
     served |-> <<>>,               \* history: the getcomment responses
     result |-> EmptyDict]

Finished(t) == tasks[t].at \in {"done", "raised"}

\* whether the loop body raises KeyError on sound_detail['create_time']
RaisesKeyError(sound_detail) == "create_time" \notin DOMAIN sound_detail

\* mutant: the comparison is dropped, the last record seen wins
FirstCreateTime_LastSeen(first_sound_create_time, sound_detail) ==
    sound_detail.create_time

\* lines 137-138
FirstCreateTime(first_sound_create_time, sound_detail) ==
    IF first_sound_create_time = None
          \/ Before(sound_detail.create_time, first_sound_create_time)
    THEN sound_detail.create_time
    ELSE first_sound_create_time

\* mutant: >= for >
IsPaid_NonNegative(sound) == sound.need_pay >= 0

IsPaid(sound) == sound.need_pay > 0

\* mutant: the threaded-comment set of a paid episode is dropped (a partial update)
AccumulatePaid_Partial(f, sound_detail) ==
    [f EXCEPT !.total_paid_udis = @ \cup sound_detail.total_sound_uids,
              !.paid_view_count = @ + sound_detail.view_count,
              !.total_paid_danmaku_udis = @ \cup sound_detail.danmaku_uids,
              !.paid_episodes = @ + 1]

\* lines 141-145
AccumulatePaid(f, sound_detail) ==
    [f EXCEPT !.total_paid_udis = @ \cup sound_detail.total_sound_uids,
              !.paid_view_count = @ + sound_detail.view_count,
              !.total_paid_danmaku_udis = @ \cup sound_detail.danmaku_uids,
              !.total_paid_comment_uids = @ \cup sound_detail.comment_uids,
              !.paid_episodes = @ + 1]

\* lines 147-150
AccumulateFree(f, sound_detail) ==
    [f EXCEPT !.total_free_udis = @ \cup sound_detail.total_sound_uids,
              !.total_free_danmaku_udis = @ \cup sound_detail.danmaku_uids,
              !.total_free_comment_uids = @ \cup sound_detail.comment_uids,
              !.free_view_count = @ + sound_detail.view_count,
              !.free_episodes = @ + 1]

\* mutant: the append sits inside the paid branch
LoopBody_AppendPaidOnly(f, sound, sound_detail) ==
    IF RaisesKeyError(sound_detail)
    THEN [f EXCEPT !.exception = "KeyError"]
    ELSE LET g == [f EXCEPT !.first_sound_create_time = FirstCreateTime(@, sound_detail)] IN
         IF IsPaid(sound)
         THEN [AccumulatePaid(g, sound_detail) EXCEPT !.sound_data = Append(@, sound_detail)]
         ELSE AccumulateFree(g, sound_detail)

\* one pass of the as_completed loop body for a future that returned sound_detail
LoopBody(f, sound, sound_detail) ==
    IF RaisesKeyError(sound_detail)
    THEN [f EXCEPT !.exception = "KeyError"]
    ELSE LET g == [f EXCEPT !.first_sound_create_time = FirstCreateTime(@, sound_detail)] IN
         IF DOMAIN sound_detail # {}
         THEN LET h == IF IsPaid(sound) THEN AccumulatePaid(g, sound_detail)
                                        ELSE AccumulateFree(g, sound_detail)
              IN [h EXCEPT !.sound_data = Append(@, sound_detail)]
         ELSE g

\* mutant: the exception of a future is swallowed and the future skipped
Yield_SwallowsRaise(f, task) ==
    IF task.at = "raised"
    THEN f
    ELSE LoopBody(f, task.sound, task.result)

\* future.result() re-raises what the task raised, else the loop body runs on its result
Yield(f, task) ==
    IF task.at = "raised"
    THEN [f EXCEPT !.exception = "RequestException"]
    ELSE LoopBody(f, task.sound, task.result)

\* list.sort(key=lambda x: x['sound_id']): stable, ascending
RECURSIVE Insert(_, _)
Insert(sorted, x) ==
    IF sorted = <<>> THEN <<x>>
    ELSE IF x.sound_id < sorted[Len(sorted)].sound_id
         THEN Append(Insert(SubSeq(sorted, 1, Len(sorted) - 1), x), sorted[Len(sorted)])
         ELSE Append(sorted, x)

\* mutant: the sort is left out
SortBySoundId_Unsorted(s) == s

RECURSIVE SortBySoundId(_)
SortBySoundId(s) ==
    IF s = <<>> THEN <<>>
    ELSE Insert(SortBySoundId(SubSeq(s, 1, Len(s) - 1)), s[Len(s)])

SoundRow(sound_detail) ==
    <<sound_detail.sound_title, sound_detail.create_time, sound_detail.need_pay,
      Cardinality(sound_detail.danmaku_uids), Cardinality(sound_detail.comment_uids),
      Cardinality(sound_detail.total_sound_uids)>>

DramaRow(f) ==
    <<f.drama_id, f.name, f.first_sound_create_time, f.price, f.view_count,
      f.paid_view_count, f.free_view_count,
      Cardinality(f.total_paid_danmaku_udis), Cardinality(f.total_paid_comment_uids),
      Cardinality(f.total_free_danmaku_udis), Cardinality(f.total_free_comment_uids),
      Cardinality(f.total_paid_udis), Cardinality(f.total_free_udis)>>

(***************************************************************************)
(* Initial states                                                          *)
(***************************************************************************)
InitProgram ==
    /\ di = 0
    /\ pc = "runner"
    /\ frame = NoFrame
    /\ tasks = <<>>
    /\ completed = <<>>
    /\ sound_file = <<>>
    /\ drama_file = <<>>
    /\ all_paid_total_uids = {}
    /\ report = None
    /\ run = 1
    /\ first_run = None

\* the drama ids 1, 2, ... typed in, against a server that answers freely
Init ==
    /\ net = EmptyDict
    /\ drama_ids \in {[i \in 1..n |-> i] : n \in 1..NumDramas}
    /\ InitProgram

(***************************************************************************)
(* Main thread                                                             *)
(***************************************************************************)
\* mutant: the futures are submitted and never awaited
StartDrama_NoJoin ==
    /\ pc = "runner"
    /\ di < Len(drama_ids)
    /\ \E response \in Fetch(<<"getdrama", drama_ids[di + 1]>>) :
          LET got == get_drama_sound_lists(response) IN
          /\ frame' = NewFrame(drama_ids[di + 1], got, response)
          /\ tasks' = [i \in DOMAIN got.sound_lists |-> NewTask(got.sound_lists[i])]
          /\ pc' = "sort"
    /\ di' = di + 1
    /\ completed' = <<>>
    /\ UNCHANGED <<net, drama_ids, sound_file, drama_file, all_paid_total_uids, report,
                   run, first_run>>

\* runner's loop header, and process_drama_id up to the executor.submit calls
StartDrama ==
    /\ pc = "runner"
    /\ di < Len(drama_ids)
    /\ \E response \in Fetch(<<"getdrama", drama_ids[di + 1]>>) :
          LET got == get_drama_sound_lists(response) IN
          /\ frame' = NewFrame(drama_ids[di + 1], got, response)
          /\ tasks' = [i \in DOMAIN got.sound_lists |-> NewTask(got.sound_lists[i])]
          /\ pc' = IF got.sound_lists # <<>> THEN "as_completed" ELSE "sort"
    /\ di' = di + 1
    /\ completed' = <<>>
    /\ UNCHANGED <<net, drama_ids, sound_file, drama_file, all_paid_total_uids, report,
                   run, first_run>>

\* mutant: the loop is left after the first future, the others are not awaited
AsCompleted_LeavesEarly ==
    /\ pc = "as_completed"
    /\ completed # <<>>
    /\ LET t == Head(completed)
           f == Yield([frame EXCEPT !.yielded = Append(@, t)], tasks[t])
       IN /\ completed' = Tail(completed)
          /\ frame' = f
          /\ pc' = IF f.exception # "" THEN "shutdown" ELSE "sort"
    /\ UNCHANGED <<net, drama_ids, di, tasks, sound_file, drama_file, all_paid_total_uids,
                   report, run, first_run>>

\* as_completed yields the oldest finished future; future.result() and the loop body
AsCompleted ==
    /\ pc = "as_completed"
    /\ completed # <<>>
    /\ LET t == Head(completed)
           f == Yield([frame EXCEPT !.yielded = Append(@, t)], tasks[t])
       IN /\ completed' = Tail(completed)
          /\ frame' = f
          /\ pc' = IF f.exception # "" THEN "shutdown"
                    ELSE IF Len(f.yielded) = Len(tasks) THEN "sort"
                    ELSE "as_completed"
    /\ UNCHANGED <<net, drama_ids, di, tasks, sound_file, drama_file, all_paid_total_uids,
                   report, run, first_run>>

\* mutant: the executor is shut down without waiting for its futures
ExecutorExit_NoWait ==
    /\ pc = "shutdown"
    /\ pc' = "crashed"
    /\ UNCHANGED <<net, drama_ids, di, frame, tasks, completed, sound_file, drama_file,
                   all_paid_total_uids, report, run, first_run>>

\* an exception leaves the with block: executor.shutdown(wait=True), then it leaves
\* process_drama_id and runner, which closes the two files
ExecutorExit ==
    /\ pc = "shutdown"
    /\ \A t \in DOMAIN tasks : Finished(t)
    /\ pc' = "crashed"
    /\ UNCHANGED <<net, drama_ids, di, frame, tasks, completed, sound_file, drama_file,
                   all_paid_total_uids, report, run, first_run>>

\* sound_data.sort and the sound_writer loop
WriteSoundRows ==
    /\ pc = "sort"
    /\ LET sorted == SortBySoundId(frame.sound_data) IN
          /\ frame' = [frame EXCEPT !.sound_data = sorted]
          /\ sound_file' = sound_file \o
                [i \in DOMAIN sorted |->
                    [drama_id |-> frame.drama_id, sound_id |-> sorted[i].sound_id,
                     row |-> SoundRow(sorted[i])]]
    /\ pc' = "drama_row"
    /\ UNCHANGED <<net, drama_ids, di, tasks, completed, drama_file, all_paid_total_uids,
                   report, run, first_run>>

\* mutant: runner assigns the returned set instead of updating the global set with it
WriteDramaRow_Assigns ==
    /\ pc = "drama_row"
    /\ drama_file' = Append(drama_file, [drama_id |-> frame.drama_id, row |-> DramaRow(frame)])
    /\ all_paid_total_uids' = frame.total_paid_udis
    /\ pc' = "runner"
    /\ UNCHANGED <<net, drama_ids, di, frame, tasks, completed, sound_file, report, run,
                   first_run>>

\* drama_writer.writerow, the return, and runner's all_paid_total_uids.update
\* (frame and tasks keep the finished call's locals until the next call replaces them)
WriteDramaRow ==
    /\ pc = "drama_row"
    /\ drama_file' = Append(drama_file, [drama_id |-> frame.drama_id, row |-> DramaRow(frame)])
    /\ all_paid_total_uids' = all_paid_total_uids \cup frame.total_paid_udis
    /\ pc' = "runner"
    /\ UNCHANGED <<net, drama_ids, di, frame, tasks, completed, sound_file, report, run,
                   first_run>>

\* runner after the loop: the files are closed and the count is printed
Report ==
    /\ pc = "runner"
    /\ di = Len(drama_ids)
    /\ report' = <<Cardinality(all_paid_total_uids)>>
    /\ pc' = "done"
    /\ UNCHANGED <<net, drama_ids, di, frame, tasks, completed, sound_file, drama_file,
                   all_paid_total_uids, run, first_run>>

(***************************************************************************)
(* Worker threads: the three calls of process_sound                        *)
(***************************************************************************)
GetSoundDetail(t) ==
    /\ tasks[t].at = "get_sound_detail"
    /\ \E response \in Fetch(<<"getsound", tasks[t].sound.sound_id>>) :
          tasks' = [tasks EXCEPT
                      ![t].sound_detail = get_sound_detail(tasks[t].sound.sound_id, response),
                      ![t].at = "fetch_all_danmakus"]
    /\ UNCHANGED <<net, drama_ids, di, pc, frame, completed, sound_file, drama_file,
                   all_paid_total_uids, report, run, first_run>>

FetchAllDanmakus(t) ==
    /\ tasks[t].at = "fetch_all_danmakus"
    /\ \E response \in Fetch(<<"getdm", tasks[t].sound.sound_id>>) :
          tasks' = [tasks EXCEPT
                      ![t].danmaku_uids = fetch_all_danmakus(response),
                      ![t].danmaku_served = response,
                      ![t].at = "fetch_all_uids_by_comments"]
    /\ UNCHANGED <<net, drama_ids, di, pc, frame, completed, sound_file, drama_file,
                   all_paid_total_uids, report, run, first_run>>

\* mutant: a failed page request ends the pagination with the empty set, as the other
\* calls degrade
FetchCommentsPage_Degrades(t) ==
    /\ tasks[t].at = "fetch_all_uids_by_comments"
    /\ tasks[t].page <= MaxPage
    /\ \E response \in Fetch(<<"getcomment", tasks[t].sound.sound_id, tasks[t].page>>) :
          LET task == [tasks[t] EXCEPT !.requested = Append(@, tasks[t].page),
                                       !.served = Append(@, response)]
              uids == IF response.kind = "RequestException" THEN {}
                      ELSE task.comments_uids \cup extract_user_ids(response)
          IN IF response.kind = "RequestException" \/ ~response.hasMore
             THEN /\ tasks' = [tasks EXCEPT ![t] =
                                 [task EXCEPT !.comments_uids = uids,
                                              !.at = "done",
                                              !.result = process_sound(task.sound,
                                                  task.sound_detail, task.danmaku_uids, uids)]]
                  /\ completed' = Append(completed, t)
             ELSE /\ tasks' = [tasks EXCEPT ![t] =
                                 [task EXCEPT !.comments_uids = uids, !.page = @ + 1]]
                  /\ completed' = completed
    /\ UNCHANGED <<net, drama_ids, di, pc, frame, sound_file, drama_file,
                   all_paid_total_uids, report, run, first_run>>

\* mutant: a safety cap ends the pagination after the second page
FetchCommentsPage_Capped(t) ==
    /\ tasks[t].at = "fetch_all_uids_by_comments"
    /\ tasks[t].page <= MaxPage
    /\ \E response \in Fetch(<<"getcomment", tasks[t].sound.sound_id, tasks[t].page>>) :
          LET task == [tasks[t] EXCEPT !.requested = Append(@, tasks[t].page),
                                       !.served = Append(@, response)]
              uids == task.comments_uids \cup extract_user_ids(response)
          IN IF response.kind = "RequestException"
             THEN /\ tasks' = [tasks EXCEPT ![t] = [task EXCEPT !.at = "raised"]]
                  /\ completed' = Append(completed, t)
             ELSE IF ~response.hasMore \/ task.page >= 2
             THEN /\ tasks' = [tasks EXCEPT ![t] =
                                 [task EXCEPT !.comments_uids = uids,
                                              !.at = "done",
                                              !.result = process_sound(task.sound,
                                                  task.sound_detail, task.danmaku_uids, uids)]]
                  /\ completed' = Append(completed, t)
             ELSE /\ tasks' = [tasks EXCEPT ![t] =
                                 [task EXCEPT !.comments_uids = uids, !.page = @ + 1]]
                  /\ completed' = completed
    /\ UNCHANGED <<net, drama_ids, di, pc, frame, sound_file, drama_file,
                   all_paid_total_uids, report, run, first_run>>

\* one pass of the while loop of fetch_all_uids_by_comments; the pass that breaks also
\* runs the rest of process_sound and sets the future's result
FetchCommentsPage(t) ==
    /\ tasks[t].at = "fetch_all_uids_by_comments"
    /\ tasks[t].page <= MaxPage
    /\ \E response \in Fetch(<<"getcomment", tasks[t].sound.sound_id, tasks[t].page>>) :
          LET task == [tasks[t] EXCEPT !.requested = Append(@, tasks[t].page),
                                       !.served = Append(@, response)]
              uids == task.comments_uids \cup extract_user_ids(response)
          IN IF response.kind = "RequestException"
             THEN /\ tasks' = [tasks EXCEPT ![t] = [task EXCEPT !.at = "raised"]]
                  /\ completed' = Append(completed, t)
             ELSE IF ~response.hasMore
             THEN /\ tasks' = [tasks EXCEPT ![t] =
                                 [task EXCEPT !.comments_uids = uids,
                                              !.at = "done",
                                              !.result = process_sound(task.sound,
                                                  task.sound_detail, task.danmaku_uids, uids)]]
                  /\ completed' = Append(completed, t)
             ELSE /\ tasks' = [tasks EXCEPT ![t] =
                                 [task EXCEPT !.comments_uids = uids, !.page = @ + 1]]
                  /\ completed' = completed
    /\ UNCHANGED <<net, drama_ids, di, pc, frame, sound_file, drama_file,
                   all_paid_total_uids, report, run, first_run>>

Next ==
    \/ StartDrama
    \/ AsCompleted
    \/ ExecutorExit
    \/ WriteSoundRows
    \/ WriteDramaRow
    \/ Report
    \/ \E t \in DOMAIN tasks : GetSoundDetail(t)
    \/ \E t \in DOMAIN tasks : FetchAllDanmakus(t)
    \/ \E t \in DOMAIN tasks : FetchCommentsPage(t)

Spec == Init /\ [][Next]_vars

(***************************************************************************)
(* One episode against arbitrary responses: drama 1 lists the wild sound.  *)
(***************************************************************************)
WildEpisodes ==
    {[sound_id |-> WildSound, soundstr |-> "W"],
     [sound_id |-> WildSound, soundstr |-> "W", need_pay |-> 0],
     [sound_id |-> WildSound, soundstr |-> "W", need_pay |-> 1]}

InitSound ==
    /\ net \in {(<<"getdrama", 1>> :> DramaJson(<<e>>)) : e \in WildEpisodes}
    /\ drama_ids = <<1>>
    /\ InitProgram

SpecSound == InitSound /\ [][Next]_vars

(***************************************************************************)
(* The pagination of one paid episode of the wild sound: the detail and    *)
(* the danmaku document are fixed, every comment page answers freely.      *)
(* With one episode at most one thread can take a step at a time (the main *)
(* thread blocks in as_completed until the worker has finished), so weak   *)
(* fairness of Next says that a thread that can run does run.              *)
(***************************************************************************)
InitPaging ==
    /\ net = (<<"getdrama", 1>>
                  :> DramaJson(<<[sound_id |-> WildSound, soundstr |-> "W", need_pay |-> 1]>>))
             @@ (<<"getsound", WildSound>> :> SoundJson(7, 30))
             @@ (<<"getdm", WildSound>> :> [kind |-> "ok", children |-> <<D("1", "1")>>])
    /\ drama_ids = <<1>>
    /\ InitProgram

SpecPaging == InitPaging /\ [][Next]_vars /\ WF_vars(Next)

(***************************************************************************)
(* The program run twice against the same mocked responses: the fixture    *)
(* answers every request of drama 1 and of the catalogue sounds, with at   *)
(* most MaxFaults of the sound requests failing.                           *)
(***************************************************************************)
MaxFaults == 1

SoundKeys ==
    UNION {{<<"getsound", s>>, <<"getdm", s>>}
              \cup {<<"getcomment", s, p>> : p \in 1..Len(CatalogueFeed(s))} :
           s \in CatalogueSounds}

Ok(key) == CHOOSE r \in Responses(key) : r.kind = "ok"

Fixture(listed, faults) ==
    [key \in {<<"getdrama", 1>>} \cup SoundKeys |->
        IF key[1] = "getdrama" THEN listed
        ELSE IF key \in faults THEN RequestException
        ELSE Ok(key)]

Fixtures ==
    {Fixture(listed, faults) :
        listed \in Responses(<<"getdrama", 1>>),
        faults \in {F \in SUBSET SoundKeys : Cardinality(F) <= MaxFaults}}

InitTwice ==
    /\ net \in Fixtures
    /\ drama_ids = <<1>>
    /\ InitProgram

FileRows(file) == [i \in DOMAIN file |-> file[i].row]

\* the program has ended (normally or by the exception) and is started again:
\* open(..., mode='w') truncates both files
Rerun ==
    /\ pc \in {"done", "crashed"}
    /\ run = 1
    /\ first_run' = [sound_file |-> FileRows(sound_file), drama_file |-> FileRows(drama_file),
                     report |-> report,
                     yielded |-> frame.yielded]   \* history: the last drama's yield order
    /\ run' = 2
    /\ di' = 0
    /\ pc' = "runner"
    /\ frame' = NoFrame
    /\ tasks' = <<>>
    /\ completed' = <<>>
    /\ sound_file' = <<>>
    /\ drama_file' = <<>>
    /\ all_paid_total_uids' = {}
    /\ report' = None
    /\ UNCHANGED <<net, drama_ids>>

NextTwice == Next \/ Rerun

SpecTwice == InitTwice /\ [][NextTwice]_vars

(***************************************************************************)
(* Properties                                                              *)
(***************************************************************************)
IsInjective(s) == \A i, j \in DOMAIN s : i # j => s[i] # s[j]
SoundIdsOf(s) == [i \in DOMAIN s |-> s[i].sound_id]
SoundRowsOf(drama_id) == SelectSeq(sound_file, LAMBDA e : e.drama_id = drama_id)
DramaRowsOf(drama_id) == SelectSeq(drama_file, LAMBDA e : e.drama_id = drama_id)

\* process_drama_id has written the episode rows of the drama in frame
RowsWritten == di > 0 /\ pc \in {"drama_row", "runner", "done"}
\* process_drama_id has left the as_completed loop normally
Joined == di > 0 /\ pc \in {"sort", "drama_row", "runner", "done"}

\* C1: once process_drama_id has written the episode rows of a drama whose list has
\* distinct sound_ids, these rows are one per listed episode and in strictly ascending
\* sound_id order, whatever order as_completed yielded the futures in.
C1_RowsAscending ==
    (RowsWritten /\ IsInjective(SoundIdsOf(frame.sound_lists))) =>
        LET rows == SoundRowsOf(frame.drama_id) IN
        /\ Len(rows) = Len(frame.sound_lists)
        /\ Range(SoundIdsOf(rows)) = Range(SoundIdsOf(frame.sound_lists))
        /\ \A i, j \in DOMAIN rows : i < j => rows[i].sound_id < rows[j].sound_id

\* two episodes with distinct ids were yielded in descending order and their rows written
C1_Witness ==
    /\ pc = "drama_row"
    /\ Len(frame.yielded) = 2
    /\ tasks[frame.yielded[1]].sound.sound_id > tasks[frame.yielded[2]].sound.sound_id
    /\ Len(SoundRowsOf(frame.drama_id)) = 2

\* C2: a task whose get_sound_detail call failed (it returned the empty record) and that
\* has been yielded by as_completed does not abort the drama: no exception leaves the loop
\* body because of it.
C2_DetailFailureAbsorbed ==
    di > 0 =>
        \A t \in Range(frame.yielded) :
            (tasks[t].at = "done" /\ tasks[t].sound_detail = EmptyDict)
                => frame.exception # "KeyError"

\* C3: the run is never halted by an exception, and a finished run has written exactly
\* one drama row per supplied drama id, in input order.
C3_RunNeverHalts ==
    /\ pc # "crashed"
    /\ pc = "done" => [i \in DOMAIN drama_file |-> drama_file[i].drama_id] = drama_ids

\* C4: when the list fetch of the drama in frame failed, no task is started, no episode
\* row is written, the returned paid union is empty, the main thread goes straight to
\* the drama row, that row is the drama's only one and carries zero sums and sizes, and
\* runner can then take its next step.
C4_ListFailure ==
    (di > 0 /\ frame.listed = RequestException) =>
        /\ tasks = <<>> /\ frame.sound_lists = <<>>
        /\ pc \in {"sort", "drama_row", "runner", "done"}
        /\ SoundRowsOf(frame.drama_id) = <<>>
        /\ frame.total_paid_udis = {}
        /\ pc \in {"sort", "drama_row"} => DramaRowsOf(frame.drama_id) = <<>>
        /\ pc \in {"runner", "done"} =>
              /\ Len(DramaRowsOf(frame.drama_id)) = 1
              /\ \A k \in 6..13 : DramaRowsOf(frame.drama_id)[1].row[k] = 0
        /\ pc = "runner" => ENABLED (StartDrama \/ Report)

\* the first drama's list fetch failed (its row has the empty name) and the second drama
\* is being processed
C4_Witness ==
    /\ di = 2
    /\ pc = "as_completed"
    /\ Len(drama_file) = 1
    /\ drama_file[1].row[2] = ""
    /\ drama_file[1].drama_id = drama_ids[1]

\* C5: once the as_completed loop has ended, the passes through the paid branch plus the
\* passes through the free branch equal the number of listed episodes, and sound_data has
\* one record per listed episode.
C5_PartitionCounts ==
    Joined =>
        /\ frame.paid_episodes + frame.free_episodes = Len(frame.sound_lists)
        /\ Len(frame.sound_data) = Len(frame.sound_lists)
        /\ frame.paid_episodes
              = Cardinality({t \in DOMAIN tasks : tasks[t].sound.need_pay > 0})

\* a drama with one paid and one free episode has been joined
C5_Witness ==
    /\ pc = "sort"
    /\ frame.paid_episodes = 1
    /\ frame.free_episodes = 1

Max(a, b) == IF a >= b THEN a ELSE b

\* C6: every record process_sound returns has total_sound_uids = danmaku_uids \cup
\* comment_uids, these being the sets its two fetches produced, so the size of the
\* combined set lies between the larger source size and the sum of the two.
C6_UnionBounds ==
    \A t \in DOMAIN tasks :
        tasks[t].at = "done" =>
            LET r == tasks[t].result IN
            /\ r.danmaku_uids = tasks[t].danmaku_uids
            /\ r.comment_uids = tasks[t].comments_uids
            /\ r.total_sound_uids = r.danmaku_uids \cup r.comment_uids
            /\ Cardinality(r.total_sound_uids)
                  >= Max(Cardinality(r.danmaku_uids), Cardinality(r.comment_uids))
            /\ Cardinality(r.total_sound_uids)
                  <= Cardinality(r.danmaku_uids) + Cardinality(r.comment_uids)

\* a record whose two source sets overlap without one containing the other
C6_Witness ==
    \E t \in DOMAIN tasks :
        /\ tasks[t].at = "done"
        /\ tasks[t].result.danmaku_uids \cap tasks[t].result.comment_uids # {}
        /\ tasks[t].result.danmaku_uids \ tasks[t].result.comment_uids # {}
        /\ tasks[t].result.comment_uids \ tasks[t].result.danmaku_uids # {}

\* the author ids a comment page declares, top-level and nested
DeclaredIds(page) ==
    {u \in 1..4 :
        \E i \in DOMAIN page.Datas :
            \/ int(page.Datas[i].userid) = u
            \/ \E j \in DOMAIN page.Datas[i].subcomments :
                  int(page.Datas[i].subcomments[j].userid) = u}

\* C7: the pages a task has requested are 1, 2, ..., n in that order, every page before
\* the last one served declared hasMore, and a task that returned was served hasMore =
\* FALSE on its last page only (N pages with hasMore, then one without: N + 1 requests)
\* and returns the union of the ids declared by all the pages served.
C7_Pagination ==
    \A t \in DOMAIN tasks :
        LET task == tasks[t]
            n == Len(task.served)
        IN /\ task.requested = [i \in 1..n |-> i]
           /\ \A i \in 1..(n - 1) : task.served[i].kind = "ok" /\ task.served[i].hasMore
           /\ task.at = "fetch_all_uids_by_comments" =>
                 /\ task.page = n + 1
                 /\ n >= 1 => task.served[n].kind = "ok" /\ task.served[n].hasMore
           /\ task.at = "done" =>
                 /\ n >= 1
                 /\ task.served[n].kind = "ok" /\ ~task.served[n].hasMore
                 /\ task.result.comment_uids = UNION {DeclaredIds(task.served[i]) : i \in 1..n}

\* two pages with hasMore and a third without were served; id 4 came from a nested reply
\* of the first page and id 1 from a top-level comment of the last
C7_Witness ==
    \E t \in DOMAIN tasks :
        /\ tasks[t].at = "done"
        /\ tasks[t].requested = <<1, 2, 3>>
        /\ tasks[t].served[1].Datas = <<Comment("01", <<"2", "4">>), Comment("3", <<>>)>>
        /\ tasks[t].served[2].Datas = <<>>
        /\ tasks[t].served[3].Datas = <<Comment("1", <<>>)>>
        /\ tasks[t].result.comment_uids = {1, 2, 3, 4}

(***************************************************************************)
(* The partition-wise fold of the episode records of the drama in frame.   *)
(***************************************************************************)
PaidTasks ==
    {t \in DOMAIN tasks :
        /\ "need_pay" \in DOMAIN frame.listed.episode[t]
        /\ frame.listed.episode[t].need_pay > 0}
FreeTasks == DOMAIN tasks \ PaidTasks

RECURSIVE ViewSum(_)
ViewSum(T) ==
    IF T = {} THEN 0
    ELSE LET t == CHOOSE x \in T : TRUE IN tasks[t].result.view_count + ViewSum(T \ {t})

\* C8: once the as_completed loop has ended, the aggregates are the fold of the episode
\* records by partition, an episode being paid iff its listed need_pay is present and
\* > 0, and the drama row written carries these sums and the sizes of these unions.
C8_PartitionFold ==
    (Joined /\ tasks # <<>>) =>
        /\ frame.paid_view_count = ViewSum(PaidTasks)
        /\ frame.free_view_count = ViewSum(FreeTasks)
        /\ frame.total_paid_danmaku_udis = UNION {tasks[t].result.danmaku_uids : t \in PaidTasks}
        /\ frame.total_paid_comment_uids = UNION {tasks[t].result.comment_uids : t \in PaidTasks}
        /\ frame.total_paid_udis = UNION {tasks[t].result.total_sound_uids : t \in PaidTasks}
        /\ frame.total_free_danmaku_udis = UNION {tasks[t].result.danmaku_uids : t \in FreeTasks}
        /\ frame.total_free_comment_uids = UNION {tasks[t].result.comment_uids : t \in FreeTasks}
        /\ frame.total_free_udis = UNION {tasks[t].result.total_sound_uids : t \in FreeTasks}
        /\ pc \in {"runner", "done"} =>
              LET row == drama_file[Len(drama_file)].row IN
              /\ drama_file[Len(drama_file)].drama_id = frame.drama_id
              /\ row[6] = ViewSum(PaidTasks)
              /\ row[7] = ViewSum(FreeTasks)
              /\ row[8] = Cardinality(frame.total_paid_danmaku_udis)
              /\ row[9] = Cardinality(frame.total_paid_comment_uids)
              /\ row[10] = Cardinality(frame.total_free_danmaku_udis)
              /\ row[11] = Cardinality(frame.total_free_comment_uids)
              /\ row[12] = Cardinality(frame.total_paid_udis)
              /\ row[13] = Cardinality(frame.total_free_udis)

\* the scenario of the specification: A free (need_pay absent), views 10, inline {1,2},
\* threaded {2,3}; B paid, views 5, inline {4}, threaded {}; B was yielded first
C8_Witness ==
    /\ pc = "runner"
    /\ di = 1
    /\ frame.listed.kind = "ok"
    /\ frame.listed.episode = <<[sound_id |-> 1, soundstr |-> "A"],
                                [sound_id |-> 2, soundstr |-> "B", need_pay |-> 1]>>
    /\ frame.yielded = <<2, 1>>
    /\ tasks[1].result.danmaku_uids = {1, 2} /\ tasks[1].result.comment_uids = {2, 3}
    /\ tasks[2].result.danmaku_uids = {4} /\ tasks[2].result.comment_uids = {}
    /\ drama_file[1].row[6] = 5 /\ drama_file[1].row[7] = 10
    /\ drama_file[1].row[12] = 1 /\ drama_file[1].row[13] = 3
    /\ sound_file[1].row[6] = 3

\* C9 as stated: when the second execution of the program has ended, its two files and
\* its report equal those of the first execution against the same mocked responses.
C9_Deterministic ==
    (run = 2 /\ pc \in {"done", "crashed"}) =>
        /\ FileRows(sound_file) = first_run.sound_file
        /\ FileRows(drama_file) = first_run.drama_file
        /\ report = first_run.report

\* C9 as amended: the same, provided the mocked episode list has no two entries with
\* one sound_id.
C9_DeterministicDistinctIds ==
    (/\ run = 2 /\ pc \in {"done", "crashed"}
     /\ net[<<"getdrama", 1>>].kind = "ok"
          => IsInjective(SoundIdsOf(net[<<"getdrama", 1>>].episode))) =>
        /\ FileRows(sound_file) = first_run.sound_file
        /\ FileRows(drama_file) = first_run.drama_file
        /\ report = first_run.report

\* both executions processed two episodes with distinct ids to the end, the first
\* yielding them in list order and the second in the opposite order
C9_Witness ==
    /\ run = 2
    /\ pc = "done"
    /\ IsInjective(SoundIdsOf(frame.sound_lists))
    /\ first_run.yielded = <<1, 2>>
    /\ frame.yielded = <<2, 1>>
    /\ Len(sound_file) >= 2

\* C10: the set fetch_all_danmakus returned is empty after a transport or parse failure,
\* and otherwise holds exactly the ids (index 6 of p) of the d elements whose type
\* (index 1 of p) is not "4".
C10_DanmakuFilter ==
    \A t \in DOMAIN tasks :
        tasks[t].at \notin {"get_sound_detail", "fetch_all_danmakus"} =>
            LET response == tasks[t].danmaku_served
                got == tasks[t].danmaku_uids
            IN IF response.kind # "ok"
               THEN got = {}
               ELSE /\ \A u \in got :
                          \E i \in DOMAIN response.children :
                              /\ response.children[i].tag = "d"
                              /\ response.children[i].p[2] # "4"
                              /\ int(response.children[i].p[7]) = u
                    /\ \A i \in DOMAIN response.children :
                          (response.children[i].tag = "d" /\ response.children[i].p[2] # "4")
                              => int(response.children[i].p[7]) \in got

\* a document with a type "4" entry of user 2 and a type "1" entry of user 1 gave {1}
C10_Witness ==
    \E t \in DOMAIN tasks :
        /\ tasks[t].at = "fetch_all_uids_by_comments"
        /\ tasks[t].danmaku_served.kind = "ok"
        /\ tasks[t].danmaku_served.children = <<D("4", "2"), D("1", "1")>>
        /\ tasks[t].danmaku_uids = {1}

\* C11: a comment page request that fails is the last one the task makes: the task has
\* raised, it has no result, it requests no further page, and nothing it collected on
\* earlier pages reaches the aggregator; future.result() re-raises the failure in the
\* main thread.  A task raises for no other reason: a failed detail or danmaku fetch
\* leaves it running with the empty record or the empty set.
C11_CommentFailureIsHard ==
    \A t \in DOMAIN tasks :
        LET task == tasks[t]
            n == Len(task.served)
        IN /\ \A i \in 1..n : task.served[i] = RequestException => (i = n /\ task.at = "raised")
           /\ task.at = "raised" =>
                 /\ n >= 1 /\ task.served[n] = RequestException
                 /\ Len(task.requested) = n
                 /\ task.result = EmptyDict
                 /\ ~ENABLED FetchCommentsPage(t)
                 /\ frame.sound_data = <<>>
                 /\ frame.total_paid_udis \cup frame.total_free_udis = {}
                 /\ frame.total_paid_comment_uids \cup frame.total_free_comment_uids = {}
                 /\ t \in Range(frame.yielded) =>
                       (frame.exception = "RequestException" /\ pc \in {"shutdown", "crashed"})
           /\ (task.at \notin {"get_sound_detail", "fetch_all_danmakus"}
                  /\ task.danmaku_served = RequestException) => task.danmaku_uids = {}

\* the second page request failed after the first page had declared identifiers; the
\* failure has left process_drama_id
C11_Witness ==
    /\ pc = "crashed"
    /\ \E t \in DOMAIN tasks :
          /\ tasks[t].at = "raised"
          /\ tasks[t].requested = <<1, 2>>
          /\ tasks[t].served[1].Datas # <<>>
          /\ tasks[t].served[2] = RequestException
          /\ frame.yielded = <<t>>
    /\ sound_file = <<>> /\ drama_file = <<>>

\* the futures whose pass of the loop body has run to its end
Processed ==
    IF frame.exception = "" THEN Range(frame.yielded)
    ELSE {frame.yielded[i] : i \in 1..(Len(frame.yielded) - 1)}

\* C12: in every state of a process_drama_id call with episodes, under every interleaving
\* of the workers and the main thread, the two view sums and the six identifier sets are
\* the partition-wise fold of the records of exactly the futures whose loop pass has run,
\* each contributing its whole record, and sound_data has one record per such future;
\* futures not yet yielded contribute nothing.  (A worker step that wrote an accumulator
\* would break the equality, since it changes neither the yielded futures nor their
\* records.)
C12_AtomicAccumulation ==
    (di > 0 /\ tasks # <<>>) =>
        LET P == Processed \cap PaidTasks
            F == Processed \cap FreeTasks
        IN /\ \A t \in Processed : tasks[t].at = "done"
           /\ Len(frame.sound_data) = Cardinality(Processed)
           /\ Range(frame.sound_data) = {tasks[t].result : t \in Processed}
           /\ frame.paid_view_count = ViewSum(P)
           /\ frame.free_view_count = ViewSum(F)
           /\ frame.total_paid_danmaku_udis = UNION {tasks[t].result.danmaku_uids : t \in P}
           /\ frame.total_paid_comment_uids = UNION {tasks[t].result.comment_uids : t \in P}
           /\ frame.total_paid_udis = UNION {tasks[t].result.total_sound_uids : t \in P}
           /\ frame.total_free_danmaku_udis = UNION {tasks[t].result.danmaku_uids : t \in F}
           /\ frame.total_free_comment_uids = UNION {tasks[t].result.comment_uids : t \in F}
           /\ frame.total_free_udis = UNION {tasks[t].result.total_sound_uids : t \in F}

\* the paid episode of sound 1 has been drained with all its identifiers while the
\* other episode's task has finished its calls but has not been yielded
C12_Witness ==
    /\ pc = "as_completed"
    /\ frame.exception = ""
    /\ Len(frame.yielded) = 1
    /\ frame.total_paid_danmaku_udis = {1, 2}
    /\ frame.total_paid_comment_uids = {2, 3}
    /\ frame.paid_view_count = 10
    /\ \E t \in DOMAIN tasks :
          /\ t \notin Range(frame.yielded)
          /\ tasks[t].at = "done"
          /\ tasks[t].result.total_sound_uids # {}

\* the creation time C13 attributes to an episode: its detail's, or the epoch when the
\* detail fetch failed
CreateTimeOrEpoch(t) ==
    IF "create_time" \in DOMAIN tasks[t].sound_detail
    THEN tasks[t].sound_detail.create_time
    ELSE fromtimestamp(0)

\* C13: while the futures yielded so far all returned, first_sound_create_time is the
\* minimum create_time over them, paid and free alike, an episode whose detail fetch
\* failed counting with the epoch; the drama row written carries that value.
C13_EarliestCreateTime ==
    (di > 0 /\ frame.yielded # <<>> /\ \A t \in Range(frame.yielded) : tasks[t].at = "done") =>
        /\ \E t \in Range(frame.yielded) : frame.first_sound_create_time = CreateTimeOrEpoch(t)
        /\ \A t \in Range(frame.yielded) :
              ~Before(CreateTimeOrEpoch(t), frame.first_sound_create_time)
        /\ pc \in {"runner", "done"} =>
              drama_file[Len(drama_file)].row[3] = frame.first_sound_create_time
        /\ pc # "crashed"

\* the rows of the drama in frame are in place as the sorted sound_data dictates
SoundRowsInPlace ==
    /\ SoundIdsOf(SoundRowsOf(frame.drama_id)) = SoundIdsOf(frame.sound_data)
    /\ \A i, j \in DOMAIN frame.sound_data :
          i < j => frame.sound_data[i].sound_id <= frame.sound_data[j].sound_id

\* C14: while a task of the drama in frame is pending or running, and until the main
\* thread has left the as_completed loop, neither file has a row of that drama; the
\* episode rows are written in one step by the main thread from the sorted sound_data,
\* with every task finished and before the drama row; the drama row is written by the
\* main thread after them, once, and no worker step writes to either file.
C14_RowsAfterJoin ==
    /\ [](di > 0 =>
            /\ (\E t \in DOMAIN tasks : ~Finished(t)) =>
                  (SoundRowsOf(frame.drama_id) = <<>> /\ DramaRowsOf(frame.drama_id) = <<>>)
            /\ pc \in {"as_completed", "shutdown", "crashed", "sort"} =>
                  (SoundRowsOf(frame.drama_id) = <<>> /\ DramaRowsOf(frame.drama_id) = <<>>)
            /\ pc = "drama_row" => (SoundRowsInPlace /\ DramaRowsOf(frame.drama_id) = <<>>)
            /\ pc \in {"runner", "done"} =>
                  (SoundRowsInPlace /\ Len(DramaRowsOf(frame.drama_id)) = 1))
    /\ [][/\ sound_file' # sound_file =>
                /\ pc = "sort" /\ pc' = "drama_row"
                /\ tasks' = tasks /\ \A t \in DOMAIN tasks : tasks[t].at = "done"
                /\ drama_file' = drama_file
          /\ drama_file' # drama_file =>
                /\ pc = "drama_row" /\ pc' = "runner"
                /\ tasks' = tasks /\ \A t \in DOMAIN tasks : tasks[t].at = "done"
                /\ sound_file' = sound_file
                /\ Len(drama_file') = Len(drama_file) + 1]_vars

\* two episodes were yielded in descending sound_id order and joined; their rows and then
\* the drama row have been written
C14_Witness ==
    /\ pc = "runner"
    /\ di > 0
    /\ Len(frame.yielded) = 2
    /\ tasks[frame.yielded[1]].sound.sound_id > tasks[frame.yielded[2]].sound.sound_id
    /\ Len(SoundRowsOf(frame.drama_id)) = 2
    /\ Len(DramaRowsOf(frame.drama_id)) = 1

\* C15: the futures in flight are those of the drama runner is at, one per listed
\* episode; while one of them is unfinished the drama rows written are exactly those of
\* the earlier drama ids; and the step that submits the futures of the next drama is
\* taken only when every future of the previous drama has finished and that drama's
\* summary row is the last row of the drama file.
C15_DramasSequential ==
    /\ [](di > 0 =>
            /\ frame.drama_id = drama_ids[di]
            /\ Len(tasks) = Len(frame.sound_lists)
            /\ \A t \in DOMAIN tasks : tasks[t].sound = frame.sound_lists[t]
            /\ (\E t \in DOMAIN tasks : ~Finished(t)) =>
                  [i \in DOMAIN drama_file |-> drama_file[i].drama_id]
                      = SubSeq(drama_ids, 1, di - 1))
    /\ [][di' # di =>
            /\ di' = di + 1
            /\ pc = "runner"
            /\ \A t \in DOMAIN tasks : Finished(t)
            /\ Len(drama_file) = di
            /\ di > 0 => drama_file[di].drama_id = drama_ids[di]]_vars

\* the first drama had a paid episode and its summary row is written; the futures of
\* the second drama are running
C15_Witness ==
    /\ di = 2
    /\ pc = "as_completed"
    /\ \E t \in DOMAIN tasks : tasks[t].at = "fetch_all_danmakus"
    /\ Len(drama_file) = 1
    /\ drama_file[1].drama_id = drama_ids[1]
    /\ drama_file[1].row[6] > 0

\* the combined identifiers of the paid, and of the free, episodes of the drama in frame
PaidFold == UNION {tasks[t].result.total_sound_uids : t \in PaidTasks}
FreeFold == UNION {tasks[t].result.total_sound_uids : t \in FreeTasks}

\* C16: the global set is empty until the first drama returns and is then that drama's
\* paid fold; no step removes an identifier from it; the step in which a drama returns
\* adds exactly the combined identifiers of that drama's paid episodes (so the set is the
\* union of the paid unions of the dramas processed so far, and an identifier of free
\* episodes only does not enter); no other step changes it.
C16_GlobalPaidSet ==
    /\ []((di = 0 \/ (di = 1 /\ pc \notin {"runner", "done"})) => all_paid_total_uids = {})
    /\ []((di = 1 /\ pc \in {"runner", "done"}) => all_paid_total_uids = PaidFold)
    /\ [][/\ all_paid_total_uids \subseteq all_paid_total_uids'
          /\ IF pc = "drama_row"
             THEN /\ all_paid_total_uids' = all_paid_total_uids \cup PaidFold
                  /\ (FreeFold \ PaidFold) \cap all_paid_total_uids' \subseteq all_paid_total_uids
             ELSE all_paid_total_uids' = all_paid_total_uids]_vars

\* drama 1 had a paid episode with identifier 4 and a free one with 1, 2, 3; drama 2 had a
\* paid episode with 2 and 3: the global set has 2, 3, 4 and not 1
C16_Witness ==
    /\ pc = "done"
    /\ di = 2
    /\ all_paid_total_uids = {2, 3, 4}
    /\ drama_file[1].row[12] = 1 /\ drama_file[1].row[13] = 3
    /\ drama_file[2].row[12] = 2

\* C17: a task that has not finished can always take its next step, whatever happened
\* to its siblings and also after a failure has left the as_completed loop (no future is
\* cancelled); the main thread is outside the executor block only when every submitted
\* task has finished, and the exception leaves the block only then.
C17_NoCancellation ==
    /\ \A t \in DOMAIN tasks :
          ~Finished(t) =>
              ENABLED (GetSoundDetail(t) \/ FetchAllDanmakus(t) \/ FetchCommentsPage(t))
    /\ (di > 0 /\ pc \notin {"as_completed", "shutdown"}) => \A t \in DOMAIN tasks : Finished(t)
    /\ (pc = "shutdown" /\ \E t \in DOMAIN tasks : ~Finished(t)) => ~ENABLED ExecutorExit

\* the first task's comment fetch failed and was re-raised while the second task had not
\* finished; the second task then ran to its result, never yielded, before the exception
\* left the executor block
C17_Witness ==
    /\ pc = "crashed"
    /\ Len(tasks) = 2
    /\ tasks[1].at = "raised"
    /\ frame.yielded = <<1>>
    /\ tasks[2].at = "done"
    /\ tasks[2].sound_detail # EmptyDict
    /\ completed = <<2>>

\* every page the task has been served so far declared hasMore
AllMore(task) ==
    \A i \in DOMAIN task.served : task.served[i].kind = "ok" /\ task.served[i].hasMore

\* the state of the pagination of every task agrees with the pages it was served
PaginationOpen ==
    \A t \in DOMAIN tasks :
        LET task == tasks[t]
            n == Len(task.served)
        IN /\ (task.at = "fetch_all_uids_by_comments" /\ AllMore(task)) =>
                 /\ task.page = n + 1
                 /\ task.page <= MaxPage => ENABLED FetchCommentsPage(t)
                 /\ pc = "as_completed"
           /\ Finished(t) =>
                 /\ n >= 1
                 /\ \A i \in 1..(n - 1) : task.served[i].kind = "ok" /\ task.served[i].hasMore
                 /\ task.at = "done" => (task.served[n].kind = "ok" /\ ~task.served[n].hasMore)
                 /\ task.at = "raised" => task.served[n] = RequestException

\* C18: a task that has only been served pages with hasMore = TRUE, however many, has
\* not returned: it is at the next page and can request it, and process_drama_id is
\* still in its as_completed loop; a task has left the pagination only by its first page
\* with hasMore = FALSE or by a failed request.  Under fair scheduling a task at page p
\* does issue that request and then either has left the pagination or is at page p + 1,
\* for every page up to the model's last page MaxPage (the pagination itself has no
\* cap): against pages that all declare hasMore the requests go on page after page.
C18_NoPageCap ==
    /\ []PaginationOpen
    /\ \A p \in 1..MaxPage :
          (\E t \in DOMAIN tasks :
              tasks[t].at = "fetch_all_uids_by_comments" /\ tasks[t].page = p)
            ~> (\E t \in DOMAIN tasks : Finished(t) \/ tasks[t].page = p + 1)

\* the server has declared hasMore on every page up to the model's last page; the task is
\* still paginating and the main thread still waits
C18_Witness ==
    /\ pc = "as_completed"
    /\ \E t \in DOMAIN tasks :
          /\ tasks[t].at = "fetch_all_uids_by_comments"
          /\ Len(tasks[t].served) = MaxPage
          /\ AllMore(tasks[t])
          /\ tasks[t].page = MaxPage + 1

\* a task of the drama in frame has raised
SomeTaskRaised == \E t \in DOMAIN tasks : tasks[t].at = "raised"

\* C19: once a task of the drama in frame has raised, the main thread never gets past
\* the as_completed loop: it is in the loop, or leaving the executor block with the
\* exception, or out of runner; neither file has a row of that drama, whatever its
\* sibling tasks returned, and the drama file has the rows of the earlier dramas only;
\* the raised future, once yielded, is the last one yielded and its exception is the
\* one that propagates; and from then on no step changes either file or the global
\* paid set.
C19_RaiseBeforeOutput ==
    /\ []((di > 0 /\ SomeTaskRaised) =>
            /\ pc \in {"as_completed", "shutdown", "crashed"}
            /\ SoundRowsOf(frame.drama_id) = <<>>
            /\ DramaRowsOf(frame.drama_id) = <<>>
            /\ [i \in DOMAIN drama_file |-> drama_file[i].drama_id] = SubSeq(drama_ids, 1, di - 1)
            /\ \A i \in DOMAIN frame.yielded :
                  tasks[frame.yielded[i]].at = "raised" =>
                      (i = Len(frame.yielded) /\ frame.exception = "RequestException"))
    /\ [][SomeTaskRaised =>
            (/\ sound_file' = sound_file
             /\ drama_file' = drama_file
             /\ all_paid_total_uids' = all_paid_total_uids
             /\ di' = di)]_vars

\* the first drama's rows are written and its paid identifiers are in the global set;
\* the second drama's only task raised and the exception has left runner
C19_Witness ==
    /\ pc = "crashed"
    /\ di = 2
    /\ tasks[1].at = "raised"
    /\ frame.exception = "RequestException"
    /\ Len(drama_file) = 1 /\ drama_file[1].drama_id = drama_ids[1]
    /\ Len(sound_file) = 2
    /\ all_paid_total_uids # {}

====
